---- MODULE Spec2Model ----
(***************************************************************************)
(* Model of the SiliconCloud image proxy (main.go): one invocation of      *)
(* handleGenerations together with the downloadImage goroutines it starts, *)
(* the upstream generation service and the image servers.                  *)
(*                                                                         *)
(* Go slices and loop indices are 0-based; sequences here are 1-based, so  *)
(* reference i of the source is position i+1 of the model.                 *)
(***************************************************************************)
EXTENDS Integers, Sequences, FiniteSets, TLC

VARIABLES
    request,      \* the inbound request body (r.Body)
    hpc,          \* position of handleGenerations
    reqBody,      \* reqBody, the decoded and field-mapped request map
    forwarded,    \* the bodies POSTed to the upstream, in order (client.Do calls)
    upstreamBody, \* what client.Do yielded: nothing yet, no answer, or a body
    originResp,   \* originResp
    next,         \* the index the spawning loop of line 171 is at
    fpc,          \* position of each downloadImage goroutine
    furl,         \* url, the address each goroutine was started with
    fstatus,      \* resp.StatusCode seen by each goroutine (0: none)
    fdata,        \* data, the bytes io.ReadAll returned to each goroutine
    ferr,         \* err, the error each goroutine is about to send
    gets,         \* number of HTTP GETs issued for each reference
    resultChan,   \* resultChan, a buffered channel of capacity N
    errorChan,    \* errorChan, a buffered channel of capacity N
    results,      \* results
    collected,    \* iterations the collecting loop of line 177 has made
    sentRes,      \* the items each goroutine has sent on resultChan
    sentErr,      \* the errors each goroutine has sent on errorChan
    responses     \* the responses written to w, in order

vars == <<request, hpc, reqBody, forwarded, upstreamBody, originResp, next, fpc,
          furl, fstatus, fdata, ferr, gets, resultChan, errorChan, results,
          collected, sentRes, sentErr, responses>>

(***************************************************************************)
(* Bounds                                                                  *)
(***************************************************************************)
MaxImages == 2

\* a JSON key that is not present
Absent == "<absent>"

RECURSIVE SeqsUpTo(_, _)
SeqsUpTo(S, n) ==
    IF n = 0 THEN {<<>>}
    ELSE LET shorter == SeqsUpTo(S, n - 1)
         IN  shorter \cup {Append(s, x) : s \in {t \in shorter : Len(t) = n - 1}, x \in S}

(***************************************************************************)
(* JSON values of the inbound request                                      *)
(***************************************************************************)
JString(s) == [t |-> "string", v |-> s]
JNumber(s) == [t |-> "number", v |-> s]

ResponseFormats == {JString("b64_json"), JString("url"), JString("B64_JSON"), JNumber("1")}

\* the objects a caller may post: response_format and size each present or not
ObjectFields ==
    {<<>>, "size" :> JString("512x512")}
    \cup {"response_format" :> f : f \in ResponseFormats}
    \cup {("response_format" :> JString("url")) @@ ("size" :> JString("512x512"))}

\* text: what the bytes of the body are; fields: the members when it is an object
Requests ==
    {[text |-> k, fields |-> <<>>] : k \in {"notjson", "empty", "array", "null"}}
    \cup {[text |-> "object", fields |-> f] : f \in ObjectFields}

\* The parsed request map: nil for the JSON null, else the members
NilMap == [nil |-> TRUE, m |-> <<>>]

\* a decoder whose error is dropped: the map stays nil
DecodeRequestBodyLenient(body) ==
    CASE body.text = "object" -> [err |-> FALSE, map |-> [nil |-> FALSE, m |-> body.fields]]
      [] OTHER                -> [err |-> FALSE, map |-> NilMap]

\* json.NewDecoder(r.Body).Decode(&reqBody) into a map[string]interface{}
DecodeRequestBody(body) ==
    CASE body.text = "object" -> [err |-> FALSE, map |-> [nil |-> FALSE, m |-> body.fields]]
      [] body.text = "null"   -> [err |-> FALSE, map |-> NilMap]
      [] OTHER                -> [err |-> TRUE,  map |-> NilMap]

\* the size -> image_size field mapping
MapFields(map) ==
    IF "size" \in DOMAIN map.m
    THEN [nil |-> map.nil,
          m   |-> [k \in (DOMAIN map.m \ {"size"}) \cup {"image_size"} |->
                      IF k = "image_size" THEN map.m["size"] ELSE map.m[k]]]
    ELSE map

\* responseFormat, _ := reqBody["response_format"].(string)
ResponseFormatOf(map) ==
    IF "response_format" \in DOMAIN map.m /\ map.m["response_format"].t = "string"
    THEN map.m["response_format"].v
    ELSE ""

(***************************************************************************)
(* The upstream's JSON answer and its decoding into OriginResponse         *)
(***************************************************************************)
\* one entry of "images": unknown holds the keys the Image struct has no field for
RawImages ==
    { [url |-> "https://img/1", revised_prompt |-> "a cat",  unknown |-> {}],
      [url |-> "https://img/2", revised_prompt |-> "a dog",  unknown |-> {"nsfw_flags"}],
      [url |-> "https://img/1", revised_prompt |-> Absent,   unknown |-> {}] }

\* timings, seed and top-level unknown keys of an answer: the documented
\* shape, a drifted shape with keys the structs have no field for, and an
\* error object that carries none of the known keys
PlainMeta == [timings |-> [inference |-> "0.5", unknown |-> {}], seed |-> "42",
              unknown |-> {}]
DriftMeta == [timings |-> [inference |-> "0.5", unknown |-> {"queue"}], seed |-> Absent,
              unknown |-> {"shared_id"}]
BareMeta  == [timings |-> [inference |-> Absent, unknown |-> {}], seed |-> Absent,
              unknown |-> {"code", "message"}]

JsonDoc(images_t, images, meta) ==
    [kind |-> "json", images_t |-> images_t, images |-> images,
     timings |-> meta.timings, seed |-> meta.seed, unknown |-> meta.unknown]

\* what the upstream may answer: bytes that are no JSON, JSON of the wrong
\* shape ("images" not an array), an object without "images" (an error
\* object), or a generation result
NotJsonBody == [JsonDoc("absent", <<>>, BareMeta) EXCEPT !.kind = "notjson"]
WrongShapeBody == JsonDoc("string", <<>>, BareMeta)

UpstreamBodies ==
    {NotJsonBody, WrongShapeBody, JsonDoc("absent", <<>>, BareMeta)}
    \cup {JsonDoc("array", imgs, PlainMeta) : imgs \in SeqsUpTo(RawImages, MaxImages)}
    \cup {JsonDoc("array", imgs, DriftMeta) : imgs \in SeqsUpTo(RawImages, 1)}

\* a string field absent from the JSON keeps Go's zero value
FieldOr(v, zero) == IF v = Absent THEN zero ELSE v

\* the zero OriginResponse
ZeroOrigin == [Images |-> <<>>, ImagesNil |-> TRUE,
               Timings |-> [Inference |-> ""], Seed |-> ""]

\* a decoder whose error is dropped: whatever did not decode is the zero value
DecodeOriginLenient(body) ==
    [err |-> FALSE, value |-> ZeroOrigin]

\* a decoder that rejects keys without a struct field (DisallowUnknownFields)
DecodeOriginStrict(body) ==
    IF \/ body.kind # "json" \/ body.images_t \notin {"absent", "null", "array"}
       \/ body.unknown # {} \/ body.timings.unknown # {}
       \/ \E k \in 1..Len(body.images) : body.images[k].unknown # {}
    THEN [err |-> TRUE, value |-> ZeroOrigin]
    ELSE [err |-> FALSE,
          value |-> [Images    |-> [i \in 1..Len(body.images) |->
                                       [URL           |-> FieldOr(body.images[i].url, ""),
                                        RevisedPrompt |-> FieldOr(body.images[i].revised_prompt, "")]],
                     ImagesNil |-> body.images_t # "array",
                     Timings   |-> [Inference |-> FieldOr(body.timings.inference, "")],
                     Seed      |-> FieldOr(body.seed, "")]]

\* json.NewDecoder(resp.Body).Decode(&originResp): keys without a struct
\* field are skipped, ExtraFields (json:"-") is never filled
DecodeOrigin(body) ==
    IF body.kind # "json" \/ body.images_t \notin {"absent", "null", "array"}
    THEN [err |-> TRUE, value |-> ZeroOrigin]
    ELSE [err |-> FALSE,
          value |-> [Images    |-> [i \in 1..Len(body.images) |->
                                       [URL           |-> FieldOr(body.images[i].url, ""),
                                        RevisedPrompt |-> FieldOr(body.images[i].revised_prompt, "")]],
                     ImagesNil |-> body.images_t # "array",
                     Timings   |-> [Inference |-> FieldOr(body.timings.inference, "")],
                     Seed      |-> FieldOr(body.seed, "")]]

\* encoding of a json.Number: the empty Number is written as 0
NumberText(n) == IF n = "" THEN "0" ELSE n

\* json.NewEncoder(w).Encode(originResp): the struct's fields only,
\* revised_prompt omitted when empty, a nil slice written as null
EncodeOrigin(o) ==
    [kind     |-> "json",
     images_t |-> IF o.ImagesNil THEN "null" ELSE "array",
     images   |-> [i \in 1..Len(o.Images) |->
                     [url            |-> o.Images[i].URL,
                      revised_prompt |-> IF o.Images[i].RevisedPrompt = "" THEN Absent
                                         ELSE o.Images[i].RevisedPrompt,
                      unknown        |-> {}]],
     timings  |-> [inference |-> NumberText(o.Timings.Inference), unknown |-> {}],
     seed     |-> NumberText(o.Seed),
     unknown  |-> {}]

\* client.Do returned an error: there is no body
Unreachable == [kind |-> "unreachable", images_t |-> "absent", images |-> <<>>,
                timings |-> [inference |-> Absent, unknown |-> {}], seed |-> Absent,
                unknown |-> {}]

\* a response that carries no JSON document
NoDoc == [kind |-> "none", images_t |-> "absent", images |-> <<>>,
          timings |-> [inference |-> Absent, unknown |-> {}], seed |-> Absent,
          unknown |-> {}]

(***************************************************************************)
(* base64.StdEncoding.EncodeToString                                       *)
(***************************************************************************)
encodeStd ==
    << "A","B","C","D","E","F","G","H","I","J","K","L","M","N","O","P",
       "Q","R","S","T","U","V","W","X","Y","Z","a","b","c","d","e","f",
       "g","h","i","j","k","l","m","n","o","p","q","r","s","t","u","v",
       "w","x","y","z","0","1","2","3","4","5","6","7","8","9","+","/" >>

StdPadding == "="

\* the 6-bit digits of the encoding, PadDigit standing for a padding character
PadDigit == Len(encodeStd)

\* the unpadded encoding (base64.RawStdEncoding)
RECURSIVE B64DigitsRaw(_)
B64DigitsRaw(src) ==
    IF Len(src) = 0 THEN <<>>
    ELSE IF Len(src) = 1 THEN
        << src[1] \div 4, (src[1] % 4) * 16 >>
    ELSE IF Len(src) = 2 THEN
        << src[1] \div 4, (src[1] % 4) * 16 + src[2] \div 16, (src[2] % 16) * 4 >>
    ELSE
        << src[1] \div 4, (src[1] % 4) * 16 + src[2] \div 16,
           (src[2] % 16) * 4 + src[3] \div 64, src[3] % 64 >>
        \o B64DigitsRaw(SubSeq(src, 4, Len(src)))

RECURSIVE B64Digits(_)
B64Digits(src) ==
    IF Len(src) = 0 THEN <<>>
    ELSE IF Len(src) = 1 THEN
        << src[1] \div 4, (src[1] % 4) * 16, PadDigit, PadDigit >>
    ELSE IF Len(src) = 2 THEN
        << src[1] \div 4, (src[1] % 4) * 16 + src[2] \div 16, (src[2] % 16) * 4, PadDigit >>
    ELSE
        << src[1] \div 4, (src[1] % 4) * 16 + src[2] \div 16,
           (src[2] % 16) * 4 + src[3] \div 64, src[3] % 64 >>
        \o B64Digits(SubSeq(src, 4, Len(src)))

DigitChar(d) == IF d = PadDigit THEN StdPadding ELSE encodeStd[d + 1]

RECURSIVE DigitsText(_)
DigitsText(ds) ==
    IF ds = <<>> THEN "" ELSE DigitChar(Head(ds)) \o DigitsText(Tail(ds))

EncodeToString(src) == DigitsText(B64Digits(src))

(***************************************************************************)
(* Responses                                                               *)
(***************************************************************************)
StatusOK == 200
StatusBadRequest == 400
StatusInternalServerError == 500
StatusBadGateway == 502

\* http.Error(w, msg, code): plain text, the message followed by a newline
HttpError(msg, code) ==
    [status |-> code, contentType |-> "text/plain; charset=utf-8", shape |-> "text",
     text |-> msg \o "\n", doc |-> NoDoc, data |-> <<>>]

\* json.NewEncoder(w).Encode(originResp) on a fresh ResponseWriter
PassThroughResponse(o) ==
    [status |-> StatusOK, contentType |-> "application/json", shape |-> "origin",
     text |-> "", doc |-> EncodeOrigin(o), data |-> <<>>]

\* json.NewEncoder(w).Encode(openaiResp): {created, data}
OpenAIResponse(items) ==
    [status |-> StatusOK, contentType |-> "application/json", shape |-> "openai",
     text |-> "", doc |-> NoDoc, data |-> items]

OpenAIDataItem(b64, prompt) == [B64JSON |-> b64, RevisedPrompt |-> prompt]

(***************************************************************************)
(* The image servers                                                       *)
(***************************************************************************)
\* the bodies an image server may serve
Bodies == { <<>>, <<1, 2, 3>>, <<255, 0>> }

\* the status codes an image server may answer with
FetchStatuses == {200, 204, 404}

StatusText(code) ==
    CASE code = 200 -> "200" [] code = 204 -> "204" [] code = 404 -> "404"

\* fmt.Errorf("HTTP %d", resp.StatusCode)
StatusError(code) == "HTTP " \o StatusText(code)

(***************************************************************************)
(* handleGenerations                                                       *)
(***************************************************************************)
N == Len(originResp.Images)

Init ==
    /\ request \in Requests
    /\ hpc = "decodeReq"
    /\ reqBody = NilMap
    /\ forwarded = <<>>
    /\ upstreamBody = NoDoc
    /\ originResp = ZeroOrigin
    /\ next = 1
    /\ fpc = <<>>
    /\ furl = <<>>
    /\ fstatus = <<>>
    /\ fdata = <<>>
    /\ ferr = <<>>
    /\ gets = <<>>
    /\ resultChan = <<>>
    /\ errorChan = <<>>
    /\ results = <<>>
    /\ collected = 0
    /\ sentRes = <<>>
    /\ sentErr = <<>>
    /\ responses = <<>>

fanVars == <<next, fpc, furl, fstatus, fdata, ferr, gets, resultChan, errorChan,
             results, collected, sentRes, sentErr>>

\* the 400 branch without its return: the nil map is forwarded all the same
RejectRequestNoReturn ==
    /\ hpc = "decodeReq"
    /\ DecodeRequestBody(request).err
    /\ responses' = Append(responses, HttpError("{\"error\": \"Invalid JSON\"}", StatusBadRequest))
    /\ reqBody' = NilMap
    /\ forwarded' = Append(forwarded, NilMap)
    /\ hpc' = "awaitUpstream"
    /\ UNCHANGED <<request, upstreamBody, originResp, fanVars>>

\* lines 78-84: the body does not decode: 400 and return
RejectRequest ==
    /\ hpc = "decodeReq"
    /\ DecodeRequestBody(request).err
    /\ responses' = Append(responses, HttpError("{\"error\": \"Invalid JSON\"}", StatusBadRequest))
    /\ hpc' = "done"
    /\ UNCHANGED <<request, reqBody, forwarded, upstreamBody, originResp, fanVars>>

\* lines 78-106: the body decodes, size is renamed, the request is POSTed
ForwardRequest ==
    /\ hpc = "decodeReq"
    /\ ~DecodeRequestBody(request).err
    /\ reqBody' = MapFields(DecodeRequestBody(request).map)
    /\ forwarded' = Append(forwarded, reqBody')
    /\ hpc' = "awaitUpstream"
    /\ UNCHANGED <<request, upstreamBody, originResp, responses, fanVars>>

\* lines 106-111: client.Do fails (refused, reset, or the 15 s Timeout): 502
UpstreamUnavailable ==
    /\ hpc = "awaitUpstream"
    /\ upstreamBody' = Unreachable
    /\ responses' = Append(responses,
           HttpError("{\"error\":\"Upstream service unavailable\"}", StatusBadGateway))
    /\ hpc' = "done"
    /\ UNCHANGED <<request, reqBody, forwarded, originResp, fanVars>>

\* lines 114-120: the upstream's body does not decode: 500
UpstreamMalformed(body) ==
    /\ hpc = "awaitUpstream"
    /\ DecodeOrigin(body).err
    /\ upstreamBody' = body
    /\ responses' = Append(responses,
           HttpError("{\"error\":\"Invalid upstream response\"}", StatusInternalServerError))
    /\ hpc' = "done"
    /\ UNCHANGED <<request, reqBody, forwarded, originResp, fanVars>>

\* a branch that converts unless URLs were asked for
WantsInlineUnlessUrl(map) == ResponseFormatOf(map) # "url"

\* line 124: the branch on the requested format
WantsInline(map) == ResponseFormatOf(map) = "b64_json"

\* lines 114-129: the body decodes and b64_json was not asked for: pass through
PassThrough(body) ==
    /\ hpc = "awaitUpstream"
    /\ ~DecodeOrigin(body).err
    /\ ~WantsInline(reqBody)
    /\ upstreamBody' = body
    /\ originResp' = DecodeOrigin(body).value
    /\ responses' = Append(responses, PassThroughResponse(originResp'))
    /\ hpc' = "done"
    /\ UNCHANGED <<request, reqBody, forwarded, fanVars>>

\* lines 114-133: the body decodes and b64_json was asked for: make the channels
EnterFanOut(body) ==
    /\ hpc = "awaitUpstream"
    /\ ~DecodeOrigin(body).err
    /\ WantsInline(reqBody)
    /\ upstreamBody' = body
    /\ originResp' = DecodeOrigin(body).value
    /\ hpc' = "fanout"
    /\ next' = 1
    /\ fpc' = [i \in 1..Len(originResp'.Images) |-> "idle"]
    /\ furl' = [i \in 1..Len(originResp'.Images) |-> ""]
    /\ fstatus' = [i \in 1..Len(originResp'.Images) |-> 0]
    /\ fdata' = [i \in 1..Len(originResp'.Images) |-> <<>>]
    /\ ferr' = [i \in 1..Len(originResp'.Images) |-> ""]
    /\ gets' = [i \in 1..Len(originResp'.Images) |-> 0]
    /\ resultChan' = <<>>
    /\ errorChan' = <<>>
    /\ results' = <<>>
    /\ collected' = 0
    /\ sentRes' = [i \in 1..Len(originResp'.Images) |-> <<>>]
    /\ sentErr' = [i \in 1..Len(originResp'.Images) |-> <<>>]
    /\ UNCHANGED <<request, reqBody, forwarded, responses>>

handlerVars == <<request, hpc, reqBody, forwarded, upstreamBody, originResp, responses>>

\* a pipeline: the next download is started once the previous one has ended
SpawnAfterPrevious ==
    /\ hpc = "fanout"
    /\ next <= N
    /\ next > 1 => fpc[next - 1] = "done"
    /\ fpc' = [fpc EXCEPT ![next] = "get"]
    /\ furl' = [furl EXCEPT ![next] = originResp.Images[next].URL]
    /\ gets' = [gets EXCEPT ![next] = @ + 1]
    /\ next' = next + 1
    /\ UNCHANGED <<handlerVars, fstatus, fdata, ferr, resultChan, errorChan, results,
                   collected, sentRes, sentErr>>

\* lines 171-173: one iteration of the spawning loop; the goroutine issues its GET
Spawn ==
    /\ hpc = "fanout"
    /\ next <= N
    /\ fpc' = [fpc EXCEPT ![next] = "get"]
    /\ furl' = [furl EXCEPT ![next] = originResp.Images[next].URL]
    /\ gets' = [gets EXCEPT ![next] = @ + 1]
    /\ next' = next + 1
    /\ UNCHANGED <<handlerVars, fstatus, fdata, ferr, resultChan, errorChan, results,
                   collected, sentRes, sentErr>>

\* a failure reported inside the item instead of left empty
FailureItemWithText == OpenAIDataItem("ZG93bmxvYWQgZmFpbGVk", "")

\* the item the collecting loop appends for a received error (line 183)
FailureItem == OpenAIDataItem("", "")

\* line 180: results = append(results, res)
OnResult(res) == Append(results, res)

\* a loop that logs a failed download and appends nothing
OnErrorSkip(err) == results

\* line 183: results = append(results, OpenAIDataItem{B64JSON: ""})
OnError(err) == Append(results, FailureItem)

\* a loop that stops at the first outcome
LoopOverAtFirst == collected >= 1 \/ N = 0

\* a loop that receives before it tests its bound
LoopOverAfterReceive == collected = N /\ collected > 0

\* line 177: for range originResp.Images is over after N iterations
LoopOver == collected = N

\* lines 177-180: one iteration of the collecting loop, the result case
CollectResult ==
    /\ hpc = "fanout"
    /\ next > N
    /\ ~LoopOver
    /\ resultChan # <<>>
    /\ results' = OnResult(Head(resultChan))
    /\ resultChan' = Tail(resultChan)
    /\ collected' = collected + 1
    /\ UNCHANGED <<handlerVars, next, fpc, furl, fstatus, fdata, ferr, gets, errorChan,
                   sentRes, sentErr>>

\* lines 177-184: one iteration of the collecting loop, the error case
CollectError ==
    /\ hpc = "fanout"
    /\ next > N
    /\ ~LoopOver
    /\ errorChan # <<>>
    /\ results' = OnError(Head(errorChan))
    /\ errorChan' = Tail(errorChan)
    /\ collected' = collected + 1
    /\ UNCHANGED <<handlerVars, next, fpc, furl, fstatus, fdata, ferr, gets, resultChan,
                   sentRes, sentErr>>

\* lines 187-195: the loop is over, the response is written
Respond ==
    /\ hpc = "fanout"
    /\ next > N
    /\ LoopOver
    /\ responses' = Append(responses, OpenAIResponse(results))
    /\ hpc' = "done"
    /\ UNCHANGED <<request, reqBody, forwarded, upstreamBody, originResp, fanVars>>

(***************************************************************************)
(* downloadImage(url, index)                                               *)
(***************************************************************************)
restVars == <<handlerVars, next, furl, gets, results, collected>>

\* a failed GET tried once more before it is reported
GetFailsRetry(i) ==
    /\ fpc[i] = "get"
    /\ IF gets[i] < 2
       THEN /\ gets' = [gets EXCEPT ![i] = @ + 1]
            /\ UNCHANGED <<ferr, fpc>>
       ELSE /\ ferr' = [ferr EXCEPT ![i] = "dial tcp: connection refused"]
            /\ fpc' = [fpc EXCEPT ![i] = "sendErr"]
            /\ gets' = gets
    /\ UNCHANGED <<handlerVars, next, furl, results, collected, fstatus, fdata,
                   resultChan, errorChan, sentRes, sentErr>>

\* lines 139-144: http.Get fails
GetFails(i) ==
    /\ fpc[i] = "get"
    /\ ferr' = [ferr EXCEPT ![i] = "dial tcp: connection refused"]
    /\ fpc' = [fpc EXCEPT ![i] = "sendErr"]
    /\ UNCHANGED <<restVars, fstatus, fdata, resultChan, errorChan, sentRes, sentErr>>

\* the status check without its return: the error is sent and the body read
GetReturnsFallsThrough(i, code) ==
    /\ fpc[i] = "get"
    /\ fstatus' = [fstatus EXCEPT ![i] = code]
    /\ fpc' = [fpc EXCEPT ![i] = "read"]
    /\ IF code # StatusOK
       THEN /\ ferr' = [ferr EXCEPT ![i] = StatusError(code)]
            /\ errorChan' = Append(errorChan, StatusError(code))
            /\ sentErr' = [sentErr EXCEPT ![i] = Append(@, StatusError(code))]
       ELSE /\ UNCHANGED <<ferr, errorChan, sentErr>>
    /\ UNCHANGED <<restVars, fdata, resultChan, sentRes>>

\* a download that never looks at the status code
GetReturnsUnchecked(i, code) ==
    /\ fpc[i] = "get"
    /\ fstatus' = [fstatus EXCEPT ![i] = code]
    /\ fpc' = [fpc EXCEPT ![i] = "read"]
    /\ UNCHANGED <<restVars, ferr, fdata, resultChan, errorChan, sentRes, sentErr>>

\* lines 139-152: http.Get returns a response; any status but 200 is an error
GetReturns(i, code) ==
    /\ fpc[i] = "get"
    /\ fstatus' = [fstatus EXCEPT ![i] = code]
    /\ IF code # StatusOK
       THEN /\ ferr' = [ferr EXCEPT ![i] = StatusError(code)]
            /\ fpc' = [fpc EXCEPT ![i] = "sendErr"]
       ELSE /\ ferr' = ferr
            /\ fpc' = [fpc EXCEPT ![i] = "read"]
    /\ UNCHANGED <<restVars, fdata, resultChan, errorChan, sentRes, sentErr>>

\* lines 139, 154: http.DefaultClient has no Timeout: a server that never
\* answers, or never finishes the body, holds the goroutine for ever
Stalls(i) ==
    /\ fpc[i] \in {"get", "read"}
    /\ fpc' = [fpc EXCEPT ![i] = "stalled"]
    /\ UNCHANGED <<restVars, fstatus, fdata, ferr, resultChan, errorChan, sentRes,
                   sentErr>>

\* lines 154-159: io.ReadAll fails
ReadFails(i) ==
    /\ fpc[i] = "read"
    /\ ferr' = [ferr EXCEPT ![i] = "unexpected EOF"]
    /\ fpc' = [fpc EXCEPT ![i] = "sendErr"]
    /\ UNCHANGED <<restVars, fstatus, fdata, resultChan, errorChan, sentRes, sentErr>>

\* lines 154-163: io.ReadAll returns the body
ReadAll(i, data) ==
    /\ fpc[i] = "read"
    /\ fdata' = [fdata EXCEPT ![i] = data]
    /\ fpc' = [fpc EXCEPT ![i] = "sendRes"]
    /\ UNCHANGED <<restVars, fstatus, ferr, resultChan, errorChan, sentRes, sentErr>>

\* the prompt looked up with the spawning loop's variable, which has reached
\* the last image by the time the body is read
ResultItemLoopIndex(i) ==
    OpenAIDataItem(EncodeToString(fdata[i]), originResp.Images[N].RevisedPrompt)

\* lines 161-168: the item a goroutine sends for the bytes it read
ResultItem(i) ==
    OpenAIDataItem(EncodeToString(fdata[i]), originResp.Images[i].RevisedPrompt)

\* channels half as large as the number of images
ChanCapHalf == N \div 2

\* lines 132-133: make(chan ..., len(originResp.Images))
ChanCap == N

\* lines 142, 150, 157: errorChan <- err; the send waits while the buffer is full
SendError(i) ==
    /\ fpc[i] = "sendErr"
    /\ Len(errorChan) < ChanCap
    /\ errorChan' = Append(errorChan, ferr[i])
    /\ sentErr' = [sentErr EXCEPT ![i] = Append(@, ferr[i])]
    /\ fpc' = [fpc EXCEPT ![i] = "done"]
    /\ UNCHANGED <<restVars, fstatus, fdata, ferr, resultChan, sentRes>>

\* lines 165-168: resultChan <- OpenAIDataItem{...}
SendResult(i) ==
    /\ fpc[i] = "sendRes"
    /\ Len(resultChan) < ChanCap
    /\ resultChan' = Append(resultChan, ResultItem(i))
    /\ sentRes' = [sentRes EXCEPT ![i] = Append(@, ResultItem(i))]
    /\ fpc' = [fpc EXCEPT ![i] = "done"]
    /\ UNCHANGED <<restVars, fstatus, fdata, ferr, errorChan, sentErr>>

Next ==
    \/ RejectRequest
    \/ ForwardRequest
    \/ UpstreamUnavailable
    \/ \E body \in UpstreamBodies : UpstreamMalformed(body)
    \/ \E body \in UpstreamBodies : PassThrough(body)
    \/ \E body \in UpstreamBodies : EnterFanOut(body)
    \/ Spawn
    \/ CollectResult
    \/ CollectError
    \/ Respond
    \/ \E i \in DOMAIN fpc : GetFails(i)
    \/ \E i \in DOMAIN fpc, code \in FetchStatuses : GetReturns(i, code)
    \/ \E i \in DOMAIN fpc : Stalls(i)
    \/ \E i \in DOMAIN fpc : ReadFails(i)
    \/ \E i \in DOMAIN fpc, data \in Bodies : ReadAll(i, data)
    \/ \E i \in DOMAIN fpc : SendError(i)
    \/ \E i \in DOMAIN fpc : SendResult(i)

Spec == Init /\ [][Next]_vars

(***************************************************************************)
(* One downloadImage goroutine from io.ReadAll on, over a wider range of   *)
(* bodies: the encoding path of lines 154-168 and what becomes of its item *)
(***************************************************************************)
MaxBytes == 4

ByteValues == {0, 77, 255}

FetchedBodies == SeqsUpTo(ByteValues, MaxBytes)

InlineRequest == [text |-> "object", fields |-> "response_format" :> JString("b64_json")]

OneImageBody ==
    JsonDoc("array",
            << [url |-> "https://img/1", revised_prompt |-> "a cat", unknown |-> {}] >>,
            PlainMeta)

\* the only reference has answered 200 and its body is being read
InitEncode ==
    /\ request = InlineRequest
    /\ hpc = "fanout"
    /\ reqBody = MapFields(DecodeRequestBody(InlineRequest).map)
    /\ forwarded = <<reqBody>>
    /\ upstreamBody = OneImageBody
    /\ originResp = DecodeOrigin(OneImageBody).value
    /\ next = 2
    /\ fpc = <<"read">>
    /\ furl = <<"https://img/1">>
    /\ fstatus = <<StatusOK>>
    /\ fdata = << <<>> >>
    /\ ferr = <<"">>
    /\ gets = <<1>>
    /\ resultChan = <<>>
    /\ errorChan = <<>>
    /\ results = <<>>
    /\ collected = 0
    /\ sentRes = << <<>> >>
    /\ sentErr = << <<>> >>
    /\ responses = <<>>

NextEncode ==
    \/ \E data \in FetchedBodies : ReadAll(1, data)
    \/ SendResult(1)
    \/ CollectResult
    \/ Respond

SpecEncode == InitEncode /\ [][NextEncode]_vars

(***************************************************************************)
(* Vocabulary of the properties                                            *)
(***************************************************************************)
\* the response of the b64_json path has been written
InlineAnswered ==
    /\ responses # <<>>
    /\ responses[1].shape = "openai"

\* the response of the pass-through branch has been written
PassedThrough ==
    /\ responses # <<>>
    /\ responses[1].shape = "origin"

\* the caller asked for response_format "b64_json", read off the inbound body
AskedInline ==
    /\ "response_format" \in DOMAIN request.fields
    /\ request.fields["response_format"] = JString("b64_json")

\* the fetch of reference i ended with the body read
FetchSucceeded(i) == fpc[i] \in {"sendRes", "done"} /\ ferr[i] = ""

\* the fetch of reference i ended in an error
FetchFailed(i) == fpc[i] \in {"sendErr", "done"} /\ ferr[i] # ""

\* the inline data reference i stands for: its encoded bytes, or nothing
InlineDataOf(i) == IF FetchSucceeded(i) THEN EncodeToString(fdata[i]) ELSE ""

\* the number of GETs issued so far
RECURSIVE SumTo(_, _)
SumTo(f, n) == IF n = 0 THEN 0 ELSE f[n] + SumTo(f, n - 1)
TotalGets == SumTo(gets, Len(gets))

(***************************************************************************)
(* C1: on the b64_json path the item at position i of data is the one      *)
(* derived from reference i (its encoded bytes, or empty data when the     *)
(* fetch failed), whatever the order in which the fetches complete.        *)
(* The collecting loop appends in completion order, so this fails.         *)
(***************************************************************************)
C1_OutputFollowsInputOrder ==
    InlineAnswered =>
        /\ Len(responses[1].data) = N
        /\ \A i \in 1..N : responses[1].data[i].B64JSON = InlineDataOf(i)

(***************************************************************************)
(* C2: on the b64_json path data holds exactly one item per upstream image *)
(* reference, for every N >= 0 and every mix of successes and failures.    *)
(***************************************************************************)
C2_OneItemPerReference ==
    InlineAnswered => Len(responses[1].data) = Len(upstreamBody.images)

\* two references, one fetched and one failed, and the response written
C2_Witness ==
    /\ InlineAnswered
    /\ Len(upstreamBody.images) = 2
    /\ \E i, j \in 1..2 : FetchSucceeded(i) /\ FetchFailed(j)

(***************************************************************************)
(* C3: the item at index i carries the revised_prompt of reference i, when *)
(* the fetch of reference i succeeded and when it failed.                  *)
(* The item appended for a failure has no revised_prompt, so this fails.   *)
(***************************************************************************)
C3_PromptKeptAtIndex ==
    InlineAnswered =>
        /\ Len(responses[1].data) = N
        /\ \A i \in 1..N :
              responses[1].data[i].RevisedPrompt
                  = FieldOr(upstreamBody.images[i].revised_prompt, "")

(***************************************************************************)
(* C4: fetch failures are isolated: whatever subset of the fetches fails,  *)
(* every fetch runs to its end, the request is answered with status 200,   *)
(* and data holds, in some order, one empty-b64_json item per failed fetch *)
(* and the encoded bytes of every fetch that succeeded.                    *)
(***************************************************************************)
InlineValues == {InlineDataOf(i) : i \in 1..N} \cup {""}

C4_FailuresIsolated ==
    InlineAnswered =>
        /\ responses[1].status = StatusOK
        /\ Len(responses[1].data) = N
        /\ \A i \in 1..N : FetchSucceeded(i) \/ FetchFailed(i)
        /\ \A k \in 1..N : responses[1].data[k].B64JSON \in InlineValues
        /\ \A v \in InlineValues :
              Cardinality({k \in 1..N : responses[1].data[k].B64JSON = v})
                  = Cardinality({i \in 1..N : InlineDataOf(i) = v})

\* a failed fetch beside a successful one with bytes, and the response written
C4_Witness ==
    /\ InlineAnswered
    /\ N = 2
    /\ \E i, j \in 1..2 : FetchFailed(i) /\ FetchSucceeded(j) /\ fdata[j] # <<>>

\* every fetch failed, and the response written
C4_WitnessAllFail ==
    /\ InlineAnswered
    /\ N = 2
    /\ \A i \in 1..2 : FetchFailed(i)

(***************************************************************************)
(* C5: the response of the b64_json path is written only once all N        *)
(* started fetches have delivered their outcome and the N outcomes have    *)
(* been collected; nothing is left in flight or in the channels.           *)
(***************************************************************************)
C5_JoinsOnFullSet ==
    InlineAnswered =>
        /\ next > N
        /\ \A i \in 1..N : fpc[i] = "done"
        /\ collected = N
        /\ resultChan = <<>>
        /\ errorChan = <<>>

\* the response written after two fetches
C5_Witness ==
    /\ InlineAnswered
    /\ N = 2
    /\ collected = 2

(***************************************************************************)
(* C6: the fan-out is entered if and only if response_format is the string *)
(* "b64_json": otherwise no image fetch is started and the upstream result *)
(* is what is returned.                                                    *)
(***************************************************************************)
C6_SoleTrigger ==
    /\ (hpc = "fanout" \/ InlineAnswered \/ TotalGets > 0 \/ DOMAIN fpc # {}) => AskedInline
    /\ PassedThrough => (~AskedInline /\ TotalGets = 0 /\ hpc = "done")
    /\ (hpc = "done" /\ responses # <<>> /\ responses[1].status = StatusOK /\ ~AskedInline)
          => PassedThrough

\* a response_format that is a string other than "b64_json": passed through
C6_Witness ==
    /\ PassedThrough
    /\ "response_format" \in DOMAIN request.fields
    /\ request.fields["response_format"] = JString("B64_JSON")
    /\ Len(upstreamBody.images) = 2

\* response_format "b64_json": fetches were started
C6_WitnessInline ==
    /\ AskedInline
    /\ TotalGets = 2

(***************************************************************************)
(* C7: when the upstream call fails the request is answered with a fixed   *)
(* error body and status 502 (no answer) or 500 (body not decodable), the  *)
(* upstream is called once only, and no image fetch is started, whatever   *)
(* response_format was asked for.                                          *)
(***************************************************************************)
UpstreamUndecodable ==
    upstreamBody.kind = "notjson" \/ (upstreamBody.kind = "json" /\ upstreamBody.images_t = "string")

FixedError(status, line) ==
    /\ hpc = "done"
    /\ Len(responses) = 1
    /\ responses[1].status = status
    /\ responses[1].text = line
    /\ responses[1].shape = "text"

C7_UpstreamFailureIsFatal ==
    /\ Len(forwarded) <= 1
    /\ upstreamBody.kind = "unreachable" =>
          /\ FixedError(502, "{\"error\":\"Upstream service unavailable\"}\n")
          /\ Len(forwarded) = 1 /\ TotalGets = 0 /\ DOMAIN fpc = {}
    /\ UpstreamUndecodable =>
          /\ FixedError(500, "{\"error\":\"Invalid upstream response\"}\n")
          /\ Len(forwarded) = 1 /\ TotalGets = 0 /\ DOMAIN fpc = {}

\* b64_json was asked for and the upstream's body was no JSON
C7_Witness ==
    /\ AskedInline
    /\ upstreamBody.kind = "notjson"
    /\ hpc = "done"

\* b64_json was asked for and the upstream gave no answer
C7_WitnessUnreachable ==
    /\ AskedInline
    /\ upstreamBody.kind = "unreachable"
    /\ hpc = "done"

(***************************************************************************)
(* C8: when the inbound body cannot be parsed as JSON the handler answers  *)
(* 400 with the body {"error": "Invalid JSON"} (http.Error ends the line   *)
(* with a newline), and makes neither the upstream call nor any fetch.     *)
(***************************************************************************)
Unparseable == request.text \in {"notjson", "empty"}

C8_InvalidJsonRejected ==
    Unparseable =>
        /\ hpc \in {"decodeReq", "done"}
        /\ forwarded = <<>>
        /\ upstreamBody = NoDoc
        /\ TotalGets = 0 /\ DOMAIN fpc = {}
        /\ hpc = "done" =>
              /\ Len(responses) = 1
              /\ responses[1].status = 400
              /\ responses[1].text = "{\"error\": \"Invalid JSON\"}\n"

\* a body that is no JSON has been answered
C8_Witness ==
    /\ request.text = "notjson"
    /\ hpc = "done"
    /\ responses # <<>>

(***************************************************************************)
(* C9: every request eventually receives a response: the upstream call and *)
(* each image fetch are bounded in time, so the handler ends even when an  *)
(* image server never answers.                                             *)
(* The image GET runs on http.DefaultClient, which has no timeout: with a  *)
(* silent image server the handler waits in its select for ever.  Stated   *)
(* as: a request not yet answered can always take a further step.          *)
(***************************************************************************)
C9_EveryRequestAnswered ==
    hpc = "done" \/ ENABLED Next

(***************************************************************************)
(* C10: in the pass-through branch the body returned is the upstream       *)
(* response verbatim: every field the upstream sent, unknown ones          *)
(* included, reaches the caller unchanged.                                 *)
(* The body is re-encoded from OriginResponse, which keeps the known       *)
(* fields only, so this fails.                                             *)
(***************************************************************************)
C10_PassThroughVerbatim ==
    PassedThrough => responses[1].doc = upstreamBody

(***************************************************************************)
(* Decoding of standard, padded base64 (what a reader of b64_json does)    *)
(***************************************************************************)
\* the characters of the encoding of src, one by one
EncodedChars(src) == [k \in 1..Len(B64Digits(src)) |-> DigitChar(B64Digits(src)[k])]

RECURSIVE CharsText(_)
CharsText(cs) == IF cs = <<>> THEN "" ELSE Head(cs) \o CharsText(Tail(cs))

IsAlphabetChar(c) == \E d \in 1..Len(encodeStd) : encodeStd[d] = c

\* the 6-bit value of a character of the standard alphabet
CharValue(c) == (CHOOSE d \in 1..Len(encodeStd) : encodeStd[d] = c) - 1

\* what decoding yields for text that is no padded standard base64
Corrupt == << -1 >>

RECURSIVE DecodeChars(_)
DecodeChars(cs) ==
    IF cs = <<>> THEN <<>>
    ELSE IF Len(cs) < 4 \/ ~IsAlphabetChar(cs[1]) \/ ~IsAlphabetChar(cs[2]) THEN Corrupt
    ELSE IF cs[3] = StdPadding THEN
        IF Len(cs) = 4 /\ cs[4] = StdPadding /\ CharValue(cs[2]) % 16 = 0
        THEN << CharValue(cs[1]) * 4 + CharValue(cs[2]) \div 16 >>
        ELSE Corrupt
    ELSE IF ~IsAlphabetChar(cs[3]) THEN Corrupt
    ELSE IF cs[4] = StdPadding THEN
        IF Len(cs) = 4 /\ CharValue(cs[3]) % 4 = 0
        THEN << CharValue(cs[1]) * 4 + CharValue(cs[2]) \div 16,
                (CharValue(cs[2]) % 16) * 16 + CharValue(cs[3]) \div 4 >>
        ELSE Corrupt
    ELSE IF ~IsAlphabetChar(cs[4]) THEN Corrupt
    ELSE LET rest == DecodeChars(SubSeq(cs, 5, Len(cs)))
         IN  IF rest = Corrupt THEN Corrupt
             ELSE << CharValue(cs[1]) * 4 + CharValue(cs[2]) \div 16,
                     (CharValue(cs[2]) % 16) * 16 + CharValue(cs[3]) \div 4,
                     (CharValue(cs[3]) % 4) * 64 + CharValue(cs[4]) >> \o rest

(***************************************************************************)
(* C11: for every successful fetch the b64_json of its item is standard,   *)
(* padded base64 without inserted characters, and decodes to exactly the   *)
(* bytes that were fetched.                                                *)
(***************************************************************************)
ItemsOfOnlyFetch ==
    {sentRes[1][k] : k \in 1..Len(sentRes[1])}
    \cup {resultChan[k] : k \in 1..Len(resultChan)}
    \cup {results[k] : k \in 1..Len(results)}
    \cup UNION {{responses[r].data[k] : k \in 1..Len(responses[r].data)} :
                    r \in 1..Len(responses)}

C11_Base64RoundTrip ==
    \A item \in ItemsOfOnlyFetch :
        /\ item.B64JSON = CharsText(EncodedChars(fdata[1]))
        /\ DecodeChars(EncodedChars(fdata[1])) = fdata[1]
        /\ Len(EncodedChars(fdata[1])) = 4 * ((Len(fdata[1]) + 2) \div 3)

\* four fetched bytes, which need padding, have reached the response
C11_Witness ==
    /\ InlineAnswered
    /\ fdata[1] = <<255, 0, 77, 255>>
    /\ Len(responses[1].data) = 1
    /\ responses[1].data[1].B64JSON = "/wBN/w=="

(***************************************************************************)
(* C12: an upstream response with fields unknown to the schema, at the top *)
(* level or inside an image entry, decodes; unknown fields never lead to   *)
(* the "Invalid upstream response" error.                                  *)
(***************************************************************************)
HasUnknownFields(body) ==
    \/ body.unknown # {}
    \/ body.timings.unknown # {}
    \/ \E k \in 1..Len(body.images) : body.images[k].unknown # {}

WellShaped(body) == body.kind = "json" /\ body.images_t \in {"absent", "null", "array"}

C12_UnknownFieldsDecode ==
    (WellShaped(upstreamBody) /\ HasUnknownFields(upstreamBody)) =>
        /\ \A r \in 1..Len(responses) : responses[r].status # StatusInternalServerError
        /\ hpc \in {"fanout", "done"}
        /\ Len(originResp.Images) = Len(upstreamBody.images)
        /\ \A k \in 1..Len(upstreamBody.images) :
              originResp.Images[k].URL = upstreamBody.images[k].url

\* unknown keys at the top level and in the image entry, answered with 200
C12_Witness ==
    /\ upstreamBody.kind = "json"
    /\ upstreamBody.unknown # {}
    /\ Len(upstreamBody.images) = 1
    /\ upstreamBody.images[1].unknown # {}
    /\ hpc = "done"
    /\ responses[1].status = StatusOK

(***************************************************************************)
(* C13: a fetch unit sends exactly one message, on exactly one of the two  *)
(* channels: never on both, and never on neither once it has ended; so the *)
(* messages over both channels number N in all and both channels are empty *)
(* once the coordinator has collected N outcomes.                          *)
(***************************************************************************)
SentBy(i) == Len(sentRes[i]) + Len(sentErr[i])

RECURSIVE SentUpTo(_)
SentUpTo(n) == IF n = 0 THEN 0 ELSE SentBy(n) + SentUpTo(n - 1)

C13_OneOutcomePerUnit ==
    /\ \A i \in DOMAIN fpc :
          /\ SentBy(i) <= 1
          /\ fpc[i] = "done" <=> SentBy(i) = 1
          /\ ~(sentRes[i] # <<>> /\ sentErr[i] # <<>>)
    /\ SentUpTo(Len(fpc)) = Len(resultChan) + Len(errorChan) + collected
    /\ SentUpTo(Len(fpc)) <= N
    /\ (hpc \in {"fanout", "done"} /\ collected = N) =>
          /\ SentUpTo(Len(fpc)) = N
          /\ resultChan = <<>>
          /\ errorChan = <<>>

\* two units ended, one on each channel, and both outcomes collected
C13_Witness ==
    /\ N = 2
    /\ collected = 2
    /\ \E i, j \in 1..2 : Len(sentRes[i]) = 1 /\ Len(sentErr[j]) = 1

(***************************************************************************)
(* C14: true fan-out: all N fetch units are started before the coordinator *)
(* waits for any outcome, and the start of a unit never depends on the     *)
(* completion of another: while units remain to be started the next start  *)
(* is possible whatever the earlier units are doing.                       *)
(***************************************************************************)
C14_TrueFanOut ==
    /\ (hpc = "fanout" /\ next <= N) => (ENABLED Spawn /\ collected = 0)
    /\ (ENABLED CollectResult \/ ENABLED CollectError) => next > N
    /\ hpc = "fanout" => \A i \in 1..N : fpc[i] = "idle" <=> i >= next
    /\ (collected > 0 \/ InlineAnswered) => \A i \in 1..N : fpc[i] # "idle"

\* the first unit will never complete and the second can still be started
C14_Witness ==
    /\ hpc = "fanout"
    /\ N = 2
    /\ next = 2
    /\ fpc[1] = "stalled"
    /\ ENABLED Spawn

(***************************************************************************)
(* C15: on the b64_json path exactly one GET is issued per image           *)
(* reference, to that reference's URL, N in all: a failed fetch is not     *)
(* tried again, and references with the same URL are each fetched.         *)
(***************************************************************************)
C15_OneGetPerReference ==
    /\ \A i \in DOMAIN gets :
          /\ gets[i] <= 1
          /\ gets[i] = 1 <=> fpc[i] # "idle"
          /\ gets[i] = 1 => furl[i] = upstreamBody.images[i].url
    /\ TotalGets <= N
    /\ InlineAnswered =>
          /\ TotalGets = Len(upstreamBody.images)
          /\ \A i \in 1..N : gets[i] = 1

\* two references to one URL, the first fetch failed, the second did not
C15_Witness ==
    /\ InlineAnswered
    /\ N = 2
    /\ upstreamBody.images[1].url = upstreamBody.images[2].url
    /\ FetchFailed(1)
    /\ FetchSucceeded(2)
    /\ gets = <<1, 1>>

(***************************************************************************)
(* C16: no fetch unit ever blocks when it emits its outcome: each channel  *)
(* has capacity N and at most N messages are sent, so a unit that has      *)
(* reached its send can complete it at once in every interleaving, and no  *)
(* unit is left at its send when the handler returns.                      *)
(***************************************************************************)
C16_SendsNeverBlock ==
    /\ \A i \in DOMAIN fpc :
          /\ fpc[i] = "sendErr" => ENABLED SendError(i)
          /\ fpc[i] = "sendRes" => ENABLED SendResult(i)
    /\ Len(resultChan) <= ChanCap
    /\ Len(errorChan) <= ChanCap
    /\ hpc = "done" => \A i \in DOMAIN fpc : fpc[i] \notin {"sendErr", "sendRes"}

\* a unit about to send on a channel that already buffers a message
C16_Witness ==
    /\ N = 2
    /\ Len(errorChan) = 1
    /\ \E i \in 1..2 : fpc[i] = "sendErr"

(***************************************************************************)
(* C17: a handled request gets exactly one response, with status 200, 400, *)
(* 500 or 502: no path writes two, none returns without writing one, and   *)
(* nothing goes on (upstream call, fan-out) once a response is written.    *)
(***************************************************************************)
DefinedStatuses == {StatusOK, StatusBadRequest, StatusInternalServerError, StatusBadGateway}

C17_ExactlyOneResponse ==
    /\ Len(responses) <= 1
    /\ hpc = "done" <=> Len(responses) = 1
    /\ \A r \in 1..Len(responses) : responses[r].status \in DefinedStatuses
    /\ hpc = "done" => ~ENABLED Next
    /\ (responses # <<>> /\ responses[1].status # StatusOK) =>
          /\ DOMAIN fpc = {}
          /\ responses[1].status = StatusBadRequest => forwarded = <<>>
          /\ responses[1].status # StatusBadRequest => Len(forwarded) = 1

\* a JSON array, which is no object, has been refused
C17_Witness ==
    /\ request.text = "array"
    /\ Len(responses) = 1
    /\ responses[1].status = StatusBadRequest
    /\ hpc = "done"

(***************************************************************************)
(* C18: the fetcher classifies outcomes: a transport error (connect or     *)
(* body read) and any non-2xx status give a failure, and a 2xx response    *)
(* whose body is read completely gives a success carrying those bytes.     *)
(* The code compares the status with 200, so a 2xx status other than 200   *)
(* is a failure: the claim as stated fails, and holds with 200 for 2xx.    *)
(***************************************************************************)
\* what reached unit i: no response at all, or a body cut short
NoResponse(i) == fstatus[i] = 0
ReadCutShort(i) == fstatus[i] # 0 /\ ferr[i] = "unexpected EOF"

ReportedFailure(i) == sentErr[i] # <<>> /\ sentRes[i] = <<>>

ReportedSuccess(i) ==
    /\ sentErr[i] = <<>>
    /\ Len(sentRes[i]) = 1
    /\ sentRes[i][1].B64JSON = EncodeToString(fdata[i])

\* the claim as stated: success for every status 200..299
C18_ClassifiedBy2xx ==
    \A i \in DOMAIN fpc : fpc[i] = "done" =>
        /\ (NoResponse(i) \/ ReadCutShort(i)) => ReportedFailure(i)
        /\ (~NoResponse(i) /\ fstatus[i] \notin 200..299) => ReportedFailure(i)
        /\ (fstatus[i] \in 200..299 /\ ~ReadCutShort(i)) => ReportedSuccess(i)

\* the claim as amended: success for status 200 only
C18_ClassifiedBy200 ==
    \A i \in DOMAIN fpc : fpc[i] = "done" =>
        /\ (NoResponse(i) \/ ReadCutShort(i)) => ReportedFailure(i)
        /\ (~NoResponse(i) /\ fstatus[i] # StatusOK) => ReportedFailure(i)
        /\ (fstatus[i] = StatusOK /\ ~ReadCutShort(i)) => ReportedSuccess(i)

\* a 204 reported as a failure beside a 200 reported with its bytes
C18_Witness ==
    /\ DOMAIN fpc = 1..2
    /\ \E i, j \in 1..2 :
          /\ fpc[i] = "done" /\ fstatus[i] = 204 /\ ReportedFailure(i)
          /\ fpc[j] = "done" /\ fstatus[j] = StatusOK /\ ReportedSuccess(j) /\ fdata[j] # <<>>

(***************************************************************************)
(* C19: in every interleaving each non-failure item pairs the encoded      *)
(* bytes fetched for reference k with the revised_prompt of that same      *)
(* reference k; units never mix one reference's data with another's        *)
(* metadata.                                                               *)
(***************************************************************************)
PairOf(k) ==
    OpenAIDataItem(EncodeToString(fdata[k]),
                   FieldOr(upstreamBody.images[k].revised_prompt, ""))

IsPairOfSomeReference(item) ==
    \E k \in DOMAIN fpc : FetchSucceeded(k) /\ item = PairOf(k)

C19_DataPairedWithOwnPrompt ==
    /\ \A i \in DOMAIN fpc :
          /\ fpc[i] # "idle" => furl[i] = upstreamBody.images[i].url
          /\ \A k \in 1..Len(sentRes[i]) : sentRes[i][k] = PairOf(i)
    /\ \A k \in 1..Len(resultChan) : IsPairOfSomeReference(resultChan[k])
    /\ \A k \in 1..Len(results) :
          results[k] = FailureItem \/ IsPairOfSomeReference(results[k])
    /\ \A r \in 1..Len(responses) : \A k \in 1..Len(responses[r].data) :
          responses[r].data[k] = FailureItem \/ IsPairOfSomeReference(responses[r].data[k])

\* two references with different prompts and bodies, answered in reverse order
C19_Witness ==
    /\ InlineAnswered
    /\ DOMAIN fpc = 1..2
    /\ FetchSucceeded(1) /\ FetchSucceeded(2)
    /\ fdata[1] # fdata[2]
    /\ upstreamBody.images[1].revised_prompt # upstreamBody.images[2].revised_prompt
    /\ responses[1].data = <<PairOf(2), PairOf(1)>>

(***************************************************************************)
(* C20: when the upstream returns no image reference on the b64_json path  *)
(* no fetch unit is started and the handler answers at once: 200 with an   *)
(* empty data sequence.                                                    *)
(***************************************************************************)
C20_NoImagesNoFetch ==
    /\ (hpc = "fanout" /\ N = 0) =>
          /\ DOMAIN fpc = {}
          /\ ~ENABLED Spawn
          /\ ~ENABLED CollectResult
          /\ ~ENABLED CollectError
          /\ ENABLED Respond
    /\ (InlineAnswered /\ Len(upstreamBody.images) = 0) =>
          /\ hpc = "done"
          /\ responses[1].status = StatusOK
          /\ responses[1].data = <<>>
          /\ TotalGets = 0
          /\ DOMAIN fpc = {}

\* an empty "images" array, answered on the b64_json path
C20_Witness ==
    /\ InlineAnswered
    /\ upstreamBody.images_t = "array"
    /\ upstreamBody.images = <<>>
    /\ responses[1].data = <<>>

====
